---- MODULE Spec2Model ----
(***************************************************************************)
(* A model of bitvec's storage-access layer, src/store.rs: the BitStore    *)
(* trait, the implementations the store! and atomic! macros generate for   *)
(* the u8 register (u8, BitSafeU8, Cell<u8>, AtomicU8), the Alias/Unalias  *)
(* sibling types, the two layout proof constants, and the thread-safety    *)
(* capabilities the module's tests assert.                                 *)
(***************************************************************************)
EXTENDS Integers, Sequences, FiniteSets, TLC

VARIABLES
    atomic,     \* build configuration: atomics exist for the 8-bit width
    mem,        \* handle id -> the handle's value, or NoHandle
    threads,    \* handle id -> the threads that hold a reference to it
    written,    \* handle id -> the value last passed to new or store_value
    last,       \* the last operation performed, with its arguments and result
    origin,     \* type walk: the type the walk started from
    cur,        \* type walk: the type reached
    path,       \* type walk: the Alias/Unalias steps taken, oldest first
    layout,     \* build: type -> [size, align] as the platform lays it out
    proved,     \* build: the proof constants that have type-checked
    build       \* build: "compiling", "ok" or "error"

vars == <<atomic, mem, threads, written, last, origin, cur, path, layout, proved, build>>

walkVars == <<origin, cur, path>>

buildVars == <<layout, proved, build>>

----------------------------------------------------------------------------
(* Bounds of the model *)

MaxHandles == 2
MaxChain == 4
MaxAlign == 2
MaxSize  == 2

----------------------------------------------------------------------------
(* The register: store! { u8 => BitSafeU8 } and atomic! { 8, u8 => AtomicU8 } *)

BITS == 8

Mem == 0 .. (2 ^ BITS - 1)

BitIdx == 0 .. (BITS - 1)

ZERO == 0

U8 == "u8"
BitSafeU8 == "BitSafeU8"
CellU8 == "Cell<u8>"
AtomicU8 == "AtomicU8"

\* radium::if_atomic!(if atomic(8) { impl BitStore for AtomicU8 ... })
Types(cfg) == {U8, BitSafeU8, CellU8} \cup (IF cfg THEN {AtomicU8} ELSE {})

AllTypes == Types(TRUE)

Orders == {"Lsb0", "Msb0"}

Threads == {"main", "worker"}

NoHandle == [ty |-> "none", inner |-> 0]

----------------------------------------------------------------------------
(* Bitwise AND of two registers, bit by bit *)

RECURSIVE BitAndN(_, _, _)
BitAndN(a, b, n) ==
    IF n = 0 THEN 0
    ELSE (IF a % 2 = 1 /\ b % 2 = 1 THEN 1 ELSE 0)
         + 2 * BitAndN(a \div 2, b \div 2, n - 1)

BitAnd(a, b) == BitAndN(a, b, BITS)

\* index.select::<O>().into_inner(): the ordering's one-bit mask for an index
select(O, index) ==
    IF O = "Lsb0" THEN 2 ^ index ELSE 2 ^ (BITS - 1 - index)

----------------------------------------------------------------------------
(* Associated types *)

\* type Access of BitSafeU8 = <Self as BitSafe>::Rad
Rad(cfg) == IF cfg THEN AtomicU8 ELSE CellU8

\* `type Mem = Self` written in the wrapper's implementation too
MemOf_self(T) ==
    CASE T = U8 -> U8
      [] T = BitSafeU8 -> BitSafeU8
      [] T = CellU8 -> U8
      [] T = AtomicU8 -> U8

MemOf(T) ==
    CASE T = U8 -> U8
      [] T = BitSafeU8 -> U8
      [] T = CellU8 -> U8
      [] T = AtomicU8 -> U8

Access(T, cfg) ==
    CASE T = U8 -> CellU8
      [] T = BitSafeU8 -> Rad(cfg)
      [] T = CellU8 -> CellU8
      [] T = AtomicU8 -> AtomicU8

\* `type Alias = Self` written in the integer's implementation too
Alias_self(T) == T

Alias(T) ==
    CASE T = U8 -> BitSafeU8
      [] T = BitSafeU8 -> BitSafeU8
      [] T = CellU8 -> CellU8
      [] T = AtomicU8 -> AtomicU8

\* `type Unalias = Self` written in the wrapper's implementation too
Unalias_self(T) == T

Unalias(T) ==
    CASE T = U8 -> U8
      [] T = BitSafeU8 -> U8
      [] T = CellU8 -> CellU8
      [] T = AtomicU8 -> AtomicU8

----------------------------------------------------------------------------
(* new, load_value, store_value, get_bit of each implementation.  A handle *)
(* is [ty, inner]: its type and the register it wraps.                     *)

base_new(value) == [ty |-> U8, inner |-> value]

base_load_value(self) == self.inner

\* A store that ORs the value into the register instead of replacing it
base_store_value_or(self, value) ==
    [self EXCEPT !.inner = self.inner + value - BitAnd(self.inner, value)]

base_store_value(self, value) == [self EXCEPT !.inner = value]

\* BitSafeU8::new wraps the register in the Rad cell; load reads it back
BitSafe_new(value) == [ty |-> BitSafeU8, inner |-> value]

BitSafe_load(self) == self.inner

safe_new(value) == BitSafe_new(value)

safe_load_value(self) == BitSafe_load(self)

\* A store that resets the wrapper instead of writing the value
safe_store_value_zero(self, value) == safe_new(ZERO)

safe_store_value(self, value) == safe_new(value)

cell_new(value) == [ty |-> CellU8, inner |-> value]

cell_load_value(self) == self.inner

\* A store into a copy of the cell: the handle keeps its contents
cell_store_value_lost(self, value) == self

cell_store_value(self, value) == cell_new(value)

atom_new(value) == [ty |-> AtomicU8, inner |-> value]

atom_load_value(self) == self.inner

atom_store_value(self, value) == atom_new(value)

new(T, value) ==
    CASE T = U8 -> base_new(value)
      [] T = BitSafeU8 -> safe_new(value)
      [] T = CellU8 -> cell_new(value)
      [] T = AtomicU8 -> atom_new(value)

load_value(self) ==
    CASE self.ty = U8 -> base_load_value(self)
      [] self.ty = BitSafeU8 -> safe_load_value(self)
      [] self.ty = CellU8 -> cell_load_value(self)
      [] self.ty = AtomicU8 -> atom_load_value(self)

store_value(self, value) ==
    CASE self.ty = U8 -> base_store_value(self, value)
      [] self.ty = BitSafeU8 -> safe_store_value(self, value)
      [] self.ty = CellU8 -> cell_store_value(self, value)
      [] self.ty = AtomicU8 -> atom_store_value(self, value)

\* The comparison with ZERO inverted
get_bit_inverted(self, O, index) ==
    BitAnd(load_value(self), select(O, index)) = ZERO

get_bit(self, O, index) ==
    BitAnd(load_value(self), select(O, index)) # ZERO

\* The atomic load made with Ordering::SeqCst
load_access_seqcst(T, cfg) ==
    CASE T = U8 -> "plain"
      [] T = BitSafeU8 -> IF cfg THEN "seq_cst" ELSE "cell"
      [] T = CellU8 -> "cell"
      [] T = AtomicU8 -> "seq_cst"

\* The instruction load_value moves the register with
load_access(T, cfg) ==
    CASE T = U8 -> "plain"
      [] T = BitSafeU8 -> IF Rad(cfg) = AtomicU8 THEN "relaxed" ELSE "cell"
      [] T = CellU8 -> "cell"
      [] T = AtomicU8 -> "relaxed"

\* The instruction store_value moves the register with: in every
\* implementation an assignment through the exclusive reference
store_access(T, cfg) ==
    CASE T = U8 -> "plain"
      [] T = BitSafeU8 -> "plain"
      [] T = CellU8 -> "plain"
      [] T = AtomicU8 -> "plain"

----------------------------------------------------------------------------
(* Thread-safety capabilities of a region typed by T, as the tests assert  *)
(* them: assert_impl_all!(BitSlice<u8, _>: Send, Sync),                    *)
(* assert_not_impl_any!(BitSlice<Cell<u8>, _>: Send, Sync),                *)
(* assert_not_impl_any!(BitSlice<BitSafeU8, _>: Send, Sync) without        *)
(* atomics, assert_impl_all!(BitSlice<AtomicU8, _>: Send, Sync) with them. *)

region_send(T, cfg) ==
    CASE T = U8 -> TRUE
      [] T = CellU8 -> FALSE
      [] T = BitSafeU8 -> Rad(cfg) = AtomicU8
      [] T = AtomicU8 -> TRUE

\* Sync granted to every region, the Cell-backed ones included
region_sync_all(T, cfg) == TRUE

region_sync(T, cfg) ==
    CASE T = U8 -> TRUE
      [] T = CellU8 -> FALSE
      [] T = BitSafeU8 -> Rad(cfg) = AtomicU8
      [] T = AtomicU8 -> TRUE

----------------------------------------------------------------------------
(* Operations on handles *)

Handles == 1 .. MaxHandles

NoOp == [op |-> "none", h |-> 0, t |-> "main", value |-> 0,
         order |-> "Lsb0", index |-> 0, bit |-> FALSE, access |-> "none"]

Live(h) == mem[h] # NoHandle

\* fn new(value: Self::Mem) -> Self, into a fresh slot, by the main thread
New(h, T, value) ==
    /\ ~Live(h)
    /\ T \in Types(atomic)
    /\ mem' = [mem EXCEPT ![h] = new(T, value)]
    /\ threads' = [threads EXCEPT ![h] = {"main"}]
    /\ written' = [written EXCEPT ![h] = value]
    /\ last' = [NoOp EXCEPT !.op = "new", !.h = h, !.value = value]
    /\ UNCHANGED <<atomic, walkVars, buildVars>>

\* fn load_value(&self) -> Self::Mem, by any thread that holds the handle
LoadValue(h, t) ==
    /\ Live(h)
    /\ t \in threads[h]
    /\ last' = [NoOp EXCEPT !.op = "load_value", !.h = h, !.t = t,
                            !.value = load_value(mem[h]),
                            !.access = load_access(mem[h].ty, atomic)]
    /\ UNCHANGED <<atomic, mem, threads, written, walkVars, buildVars>>

\* fn store_value(&mut self, value: Self::Mem): &mut self is the only
\* reference to the handle
StoreValue(h, t, value) ==
    /\ Live(h)
    /\ threads[h] = {t}
    /\ mem' = [mem EXCEPT ![h] = store_value(mem[h], value)]
    /\ written' = [written EXCEPT ![h] = value]
    /\ last' = [NoOp EXCEPT !.op = "store_value", !.h = h, !.t = t,
                            !.value = value,
                            !.access = store_access(mem[h].ty, atomic)]
    /\ UNCHANGED <<atomic, threads, walkVars, buildVars>>

\* fn get_bit<O>(&self, index: BitIdx<Self::Mem>) -> bool
GetBit(h, t, O, index) ==
    /\ Live(h)
    /\ t \in threads[h]
    /\ last' = [NoOp EXCEPT !.op = "get_bit", !.h = h, !.t = t,
                            !.order = O, !.index = index,
                            !.bit = get_bit(mem[h], O, index),
                            !.access = load_access(mem[h].ty, atomic)]
    /\ UNCHANGED <<atomic, mem, threads, written, walkVars, buildVars>>

\* A shared reference to the region is handed to thread t: needs Sync
Share(h, t) ==
    /\ Live(h)
    /\ t \notin threads[h]
    /\ region_sync(mem[h].ty, atomic)
    /\ threads' = [threads EXCEPT ![h] = @ \cup {t}]
    /\ UNCHANGED <<atomic, mem, written, last, walkVars, buildVars>>

\* The exclusively held region is moved to thread t: needs Send
Move(h, t) ==
    /\ Live(h)
    /\ t \notin threads[h]
    /\ Cardinality(threads[h]) = 1
    /\ region_send(mem[h].ty, atomic)
    /\ threads' = [threads EXCEPT ![h] = {t}]
    /\ UNCHANGED <<atomic, mem, written, last, walkVars, buildVars>>

\* Thread t gives its shared reference up
Release(h, t) ==
    /\ Live(h)
    /\ t \in threads[h]
    /\ Cardinality(threads[h]) > 1
    /\ threads' = [threads EXCEPT ![h] = @ \ {t}]
    /\ UNCHANGED <<atomic, mem, written, last, walkVars, buildVars>>

----------------------------------------------------------------------------
(* Values the multi-handle specification stores: no bit, the lowest bit,   *)
(* every bit                                                               *)

ProbeValues == {ZERO, 1, 2 ^ BITS - 1}

IdleWalk == /\ origin = U8 /\ cur = U8 /\ path = <<>>

IdleBuild ==
    /\ layout = [T \in AllTypes |-> [size |-> 1, align |-> 1]]
    /\ proved = {}
    /\ build = "ok"

(* Spec: several handles, operated by the main thread *)
Init ==
    /\ atomic \in BOOLEAN
    /\ mem = [h \in Handles |-> NoHandle]
    /\ threads = [h \in Handles |-> {}]
    /\ written = [h \in Handles |-> ZERO]
    /\ last = NoOp
    /\ IdleWalk
    /\ IdleBuild

Next ==
    \/ \E h \in Handles, T \in AllTypes, v \in ProbeValues : New(h, T, v)
    \/ \E h \in Handles : LoadValue(h, "main")
    \/ \E h \in Handles, v \in ProbeValues : StoreValue(h, "main", v)
    \/ \E h \in Handles, O \in Orders, i \in BitIdx : GetBit(h, "main", O, i)

Spec == Init /\ [][Next]_vars

(* SpecReg: one handle, constructed with any register value; every        *)
(* register value is stored and every bit is read under both orderings    *)
InitReg ==
    /\ atomic \in BOOLEAN
    /\ \E T \in Types(atomic), x \in Mem :
          /\ mem = [h \in Handles |-> IF h = 1 THEN new(T, x) ELSE NoHandle]
          /\ written = [h \in Handles |-> IF h = 1 THEN x ELSE ZERO]
          /\ last = [NoOp EXCEPT !.op = "new", !.h = 1, !.value = x]
    /\ threads = [h \in Handles |-> IF h = 1 THEN {"main"} ELSE {}]
    /\ IdleWalk
    /\ IdleBuild

NextReg ==
    \/ LoadValue(1, "main")
    \/ \E v \in Mem : StoreValue(1, "main", v)
    \/ \E O \in Orders, i \in BitIdx : GetBit(1, "main", O, i)

SpecReg == InitReg /\ [][NextReg]_vars

(* SpecThreads: one handle, which the threads share, move and release as  *)
(* far as its type's capabilities allow                                   *)
NextThreads ==
    \/ \E t \in Threads : LoadValue(1, t)
    \/ \E t \in Threads, v \in Mem : StoreValue(1, t, v)
    \/ \E t \in Threads : Share(1, t)
    \/ \E t \in Threads : Move(1, t)
    \/ \E t \in Threads : Release(1, t)

SpecThreads == InitReg /\ [][NextThreads]_vars

----------------------------------------------------------------------------
(* SpecTypes: a region's type is taken through Alias and Unalias steps    *)

Step(op, from) == [op |-> op, from |-> from]

\* T -> T::Alias
ToAlias ==
    /\ Len(path) < MaxChain
    /\ cur' = Alias(cur)
    /\ path' = Append(path, Step("Alias", cur))
    /\ UNCHANGED <<atomic, mem, threads, written, last, origin, buildVars>>

\* T -> T::Unalias
ToUnalias ==
    /\ Len(path) < MaxChain
    /\ cur' = Unalias(cur)
    /\ path' = Append(path, Step("Unalias", cur))
    /\ UNCHANGED <<atomic, mem, threads, written, last, origin, buildVars>>

InitTypes ==
    /\ atomic \in BOOLEAN
    /\ mem = [h \in Handles |-> NoHandle]
    /\ threads = [h \in Handles |-> {}]
    /\ written = [h \in Handles |-> ZERO]
    /\ last = NoOp
    /\ origin \in Types(atomic)
    /\ cur = origin
    /\ path = <<>>
    /\ IdleBuild

NextTypes == ToAlias \/ ToUnalias

SpecTypes == InitTypes /\ [][NextTypes]_vars

----------------------------------------------------------------------------
(* SpecBuild: the compiler evaluates the proof constants of every         *)
(* implementation against the platform's layout of the types              *)

\* mem::aligned_to_size::<T>()
aligned_to_size(l) == l.align = l.size

\* mem::layout_eq::<T, U>()
layout_eq(a, b) == a.size = b.size /\ a.align = b.align

\* `b as usize`, the length of the array [(); b as usize]
as_usize(b) == IF b THEN 1 ELSE 0

\* const ALIGNED_TO_SIZE: [(); 1] = [(); mem::aligned_to_size::<Self>() as usize]
ALIGNED_TO_SIZE(T, L) == as_usize(aligned_to_size(L[T]))

\* ALIAS_WIDTH taken by fiat, [()], in the integer's implementation too
ALIAS_WIDTH_fiat(T, L) == 1

\* const ALIAS_WIDTH: [(); 1] = [(); mem::layout_eq::<Self, Self::Alias>() as usize]
\* for the integer, [()] for the other implementations
ALIAS_WIDTH(T, L) ==
    IF T = U8 THEN as_usize(layout_eq(L[T], L[Alias(T)])) ELSE 1

Consts == {"ALIGNED_TO_SIZE", "ALIAS_WIDTH"}

ConstLen(T, c, L) ==
    IF c = "ALIGNED_TO_SIZE" THEN ALIGNED_TO_SIZE(T, L) ELSE ALIAS_WIDTH(T, L)

\* The constant's value has the declared type [(); 1]
EvalOk(T, c) ==
    /\ build = "compiling"
    /\ T \in Types(atomic)
    /\ <<T, c>> \notin proved
    /\ ConstLen(T, c, layout) = 1
    /\ proved' = proved \cup {<<T, c>>}
    /\ UNCHANGED <<atomic, mem, threads, written, last, walkVars, layout, build>>

\* The constant's value has another length: a type error, no build
EvalFail(T, c) ==
    /\ build = "compiling"
    /\ T \in Types(atomic)
    /\ <<T, c>> \notin proved
    /\ ConstLen(T, c, layout) # 1
    /\ build' = "error"
    /\ UNCHANGED <<atomic, mem, threads, written, last, walkVars, layout, proved>>

Finish ==
    /\ build = "compiling"
    /\ proved = Types(atomic) \X Consts
    /\ build' = "ok"
    /\ UNCHANGED <<atomic, mem, threads, written, last, walkVars, layout, proved>>

Layouts == [size : 1 .. MaxSize, align : 1 .. MaxAlign]

\* The integer is BITS / 8 bytes wide; Cell<u8> and AtomicU8 are laid out as
\* the integer they wrap; the rest is the platform's
PlatformLayouts ==
    {L \in [AllTypes -> Layouts] :
        /\ L[U8].size = BITS \div 8
        /\ L[CellU8] = L[U8]
        /\ L[AtomicU8] = L[U8]}

InitBuild ==
    /\ atomic \in BOOLEAN
    /\ mem = [h \in Handles |-> NoHandle]
    /\ threads = [h \in Handles |-> {}]
    /\ written = [h \in Handles |-> ZERO]
    /\ last = NoOp
    /\ IdleWalk
    /\ layout \in PlatformLayouts
    /\ proved = {}
    /\ build = "compiling"

NextBuild ==
    \/ \E T \in AllTypes, c \in Consts : EvalOk(T, c)
    \/ \E T \in AllTypes, c \in Consts : EvalFail(T, c)
    \/ Finish

SpecBuild == InitBuild /\ [][NextBuild]_vars

----------------------------------------------------------------------------
(* Properties of the register operations *)

\* The bit of register r that a one-bit mask selects
BitUnder(r, mask) == \E k \in BitIdx : mask = 2 ^ k /\ (r \div 2 ^ k) % 2 = 1

\* C1: on every handle variant and for every register value x, a
\* load_value returns the value the handle was constructed with by new(x) or
\* last given by store_value(x), whatever it held before.
C1_RoundTrip ==
    last.op = "load_value" => last.value = written[last.h]

\* A relaxed load has returned all ones from an atomic handle
C1_Witness ==
    /\ last.op = "load_value"
    /\ last.value = 2 ^ BITS - 1
    /\ mem[1].ty = AtomicU8
    /\ last.access = "relaxed"

\* C2: get_bit(i) under ordering O on a handle whose contents are r is the
\* bit of r that O's mask for i selects, whichever the handle variant; with
\* contents 1 under Lsb0, get_bit(0) is true and get_bit(1) is false.
C2_GetBitMasks ==
    last.op = "get_bit" =>
        /\ last.bit = BitUnder(written[last.h], select(last.order, last.index))
        /\ (written[last.h] = 1 /\ last.order = "Lsb0" /\ last.index = 0)
              => last.bit = TRUE
        /\ (written[last.h] = 1 /\ last.order = "Lsb0" /\ last.index = 1)
              => last.bit = FALSE

\* get_bit(0) under Lsb0 has returned true on a handle holding 1
C2_Witness ==
    /\ last.op = "get_bit"
    /\ written[1] = 1
    /\ mem[1].ty = CellU8
    /\ last.order = "Lsb0"
    /\ last.index = 0
    /\ last.bit = TRUE

\* C10: load_value and get_bit leave every register unchanged and return
\* what the last new or store_value of the handle determines; new touches
\* no existing handle; store_value(v) replaces all bits of its own handle's
\* register with v and leaves every other handle unchanged.
C10_Frame ==
    [][/\ last'.op \in {"load_value", "get_bit"} => mem' = mem
       /\ last'.op = "load_value" => last'.value = written[last'.h]
       /\ last'.op = "get_bit" =>
             last'.bit = BitUnder(written[last'.h],
                                  select(last'.order, last'.index))
       /\ last'.op = "new" =>
             \A g \in Handles : Live(g) => mem'[g] = mem[g]
       /\ last'.op = "store_value" =>
             /\ \A g \in Handles \ {last'.h} : mem'[g] = mem[g]
             /\ mem'[last'.h].ty = mem[last'.h].ty
             /\ mem'[last'.h].inner = last'.value]_vars

\* store_value(0) on a handle that held other bits, beside a second live
\* handle that holds all ones
C10_Witness ==
    /\ last.op = "store_value"
    /\ last.h = 1
    /\ last.value = ZERO
    /\ mem[1].ty = U8
    /\ mem[1].inner = ZERO
    /\ Live(2)
    /\ mem[2].inner = 2 ^ BITS - 1

----------------------------------------------------------------------------
(* Properties of the thread-safety capabilities and the access mechanism *)

TheHandle == mem[1]

\* C3, as claimed: a region typed u8 or Cell<u8> is never held by another
\* thread than the one that made it, and a region typed AtomicU8 can be
\* shared with and moved to another thread.
C3_AsClaimed ==
    /\ TheHandle.ty \in {U8, CellU8} => threads[1] = {"main"}
    /\ TheHandle.ty = AtomicU8 =>
          \A t \in Threads \ threads[1] :
              /\ ENABLED Share(1, t)
              /\ Cardinality(threads[1]) = 1 => ENABLED Move(1, t)

\* C3, amended: a region typed Cell<u8> is never held by another thread
\* than the one that made it; a region typed u8 or AtomicU8 can be shared
\* with and moved to another thread.
C3_ThreadSafety ==
    /\ TheHandle.ty = CellU8 => threads[1] = {"main"}
    /\ TheHandle.ty \in {U8, AtomicU8} =>
          \A t \in Threads \ threads[1] :
              /\ ENABLED Share(1, t)
              /\ Cardinality(threads[1]) = 1 => ENABLED Move(1, t)

\* The worker thread has loaded a u8 register that both threads hold
C3_Witness ==
    /\ TheHandle.ty = U8
    /\ threads[1] = Threads
    /\ last.op = "load_value"
    /\ last.t = "worker"

\* C4: without atomics BitSafeU8's access is the Cell kind, its loads return
\* the value last constructed or stored, and its region never reaches
\* another thread; with atomics its access is the atomic kind.
C4_Fallback ==
    /\ Access(BitSafeU8, atomic) = (IF atomic THEN AtomicU8 ELSE CellU8)
    /\ TheHandle.ty = BitSafeU8 =>
          /\ TheHandle.inner = written[1]
          /\ last.op = "load_value" =>
                /\ last.value = written[1]
                /\ last.access = (IF atomic THEN "relaxed" ELSE "cell")
          /\ ~atomic =>
                /\ threads[1] = {"main"}
                /\ ~ENABLED Share(1, "worker")
                /\ ~ENABLED Move(1, "worker")

\* Without atomics, a BitSafeU8 handle has been given all ones by
\* store_value and has loaded them
C4_Witness ==
    /\ ~atomic
    /\ TheHandle.ty = BitSafeU8
    /\ last.op = "load_value"
    /\ last.value = 2 ^ BITS - 1
    /\ last.access = "cell"

\* C8, as claimed: on AtomicU8 both load_value and store_value move the
\* register with a relaxed atomic instruction.
C8_AsClaimed ==
    (TheHandle.ty = AtomicU8 /\ last.op \in {"load_value", "store_value"})
        => last.access = "relaxed"

\* C8, amended: on AtomicU8 load_value is a relaxed atomic load that returns
\* the whole value last constructed or stored; store_value is a plain
\* assignment that leaves exactly its value in the register, and no
\* store_value can run while more than one thread holds the handle.
C8_AtomicAccess ==
    TheHandle.ty = AtomicU8 =>
        /\ last.op = "load_value" =>
              /\ last.access = "relaxed"
              /\ last.value = written[1]
        /\ last.op = "store_value" =>
              /\ last.access = "plain"
              /\ TheHandle.inner = last.value
        /\ Cardinality(threads[1]) > 1 =>
              \A t \in Threads : ~ENABLED StoreValue(1, t, ZERO)

\* The worker thread has stored into an AtomicU8 handle moved to it
C8_Witness ==
    /\ TheHandle.ty = AtomicU8
    /\ last.op = "store_value"
    /\ last.t = "worker"
    /\ last.value = 1
    /\ threads[1] = {"worker"}

----------------------------------------------------------------------------
(* Properties of the sibling types *)

\* The type the i-th step of the walk led to
After(i) == IF i < Len(path) THEN path[i + 1].from ELSE cur

Pairs == {i \in 1 .. Len(path) : i + 1 <= Len(path)}

C6_SameMem ==
    /\ \A i \in 1 .. Len(path) : MemOf(After(i)) = MemOf(path[i].from)
    /\ MemOf(cur) = MemOf(origin)

\* A walk of MaxChain steps that passed from u8 to BitSafeU8
C6_Witness ==
    /\ origin = U8
    /\ Len(path) = MaxChain
    /\ cur = BitSafeU8

\* C9: u8's Alias is BitSafeU8 and its Unalias u8; BitSafeU8's Alias is
\* BitSafeU8 and its Unalias u8; Cell<u8>'s and AtomicU8's Alias and Unalias
\* are themselves; a second Alias after an Alias, or a second Unalias after
\* an Unalias, changes nothing.
C9_SiblingTable ==
    /\ \A i \in 1 .. Len(path) :
          LET T == path[i].from
          IN After(i) =
                CASE T \in {CellU8, AtomicU8} -> T
                  [] T \in {U8, BitSafeU8} /\ path[i].op = "Alias" -> BitSafeU8
                  [] T \in {U8, BitSafeU8} /\ path[i].op = "Unalias" -> U8
    /\ \A i \in Pairs :
          path[i].op = path[i + 1].op => After(i + 1) = After(i)

\* From u8, Alias has been taken twice and ended at BitSafeU8
C9_Witness ==
    /\ origin = U8
    /\ Len(path) = 2
    /\ path[1].op = "Alias"
    /\ path[2].op = "Alias"
    /\ cur = BitSafeU8

----------------------------------------------------------------------------
(* Properties of the build *)

====
